---- MODULE Spec2Model ----
(***************************************************************************)
(* Model of simd-array's AVX backends (src/simd-array/src/vector/avx.rs):  *)
(* the lane operations of AVXVector32 / AVXVector64 on IEEE-754 bit        *)
(* patterns, and the elementwise driver that walks a buffer in full lanes  *)
(* and hands the remainder to the backend named by `Lower`.                *)
(*                                                                         *)
(* A scalar (f32, f64, i32, i64) is the set of the positions of its set    *)
(* bits, bit 0 being the least significant.  A 256-bit register is the     *)
(* sequence of its lanes, lane 1 at the lowest address.                    *)
(***************************************************************************)
EXTENDS Integers, Sequences, FiniteSets

VARIABLES backend, fn, orig, a, pos, frames, pc, calls,
          opBackend, inA, inB, inM, opName, result, int32s, int64s

vars == <<backend, fn, orig, a, pos, frames, pc, calls,
          opBackend, inA, inB, inM, opName, result, int32s, int64s>>

driverVars == <<backend, fn, orig, a, pos, frames, pc, calls>>

opVars == <<opBackend, inA, inB, inM, opName, result, int32s, int64s>>

(***************************************************************************)
(* Bounds of the model.                                                    *)
(***************************************************************************)
\* Buffers of every length 0..MaxLen are driven (two 8-lane chunks and more).
MaxLen == 17

\* Cap on the depth of the descent along Lower (the real chain has depth 1).
MaxDepth == 3

(***************************************************************************)
(* Widths fixed by the types of the two backends.                          *)
(***************************************************************************)
M256Bits == 256

F32Bits == 32

F64Bits == 64

F32MantBits == 23

F32ExpBits == 8

F64MantBits == 52

F64ExpBits == 11

(***************************************************************************)
(* Arithmetic on bit sets.                                                 *)
(***************************************************************************)
RECURSIVE Pow2(_)
Pow2(n) == IF n = 0 THEN 1 ELSE 2 * Pow2(n - 1)

RECURSIVE BitLen(_)
BitLen(n) == IF n = 0 THEN 0 ELSE 1 + BitLen(n \div 2)

\* The set bits of a natural.
RECURSIVE NatBits(_)
NatBits(n) ==
    IF n = 0 THEN {}
    ELSE (IF n % 2 = 1 THEN {0} ELSE {}) \cup {b + 1 : b \in NatBits(n \div 2)}

RECURSIVE BitsToNat(_)
BitsToNat(S) ==
    IF S = {} THEN 0
    ELSE LET b == CHOOSE x \in S : TRUE
         IN  Pow2(b) + BitsToNat(S \ {b})

AllOnes(w) == 0..(w - 1)

\* Bit pattern of a hexadecimal literal, most significant digit first.
HexBits(digits) ==
    UNION {{4 * (Len(digits) - p) + i : i \in NatBits(digits[p])} : p \in DOMAIN digits}

\* S + 1 on bit sets (ripple carry).
Inc(S) ==
    LET j == CHOOSE k \in 0..(Cardinality(S)) :
                 k \notin S /\ \A l \in 0..(k - 1) : l \in S
    IN  (S \ (0..(j - 1))) \cup {j}

\* Two's complement negation in w bits.
TwosNeg(S, w) == Inc(AllOnes(w) \ S) \cap AllOnes(w)

\* Two's complement pattern, in w bits, of an integer in -2^31 .. 2^31 - 1.
IntBits(n, w) == IF n >= 0 THEN NatBits(n) ELSE AllOnes(w) \ NatBits(-(n + 1))

SignExtend(S, from, to) == IF (from - 1) \in S THEN S \cup (from..(to - 1)) ELSE S

(***************************************************************************)
(* Scalar values and their IEEE-754 encodings (f32: 1+8+23, f64: 1+11+52). *)
(* Fin(s, m, e) is the real number (-1)^s * m * 2^e.                       *)
(***************************************************************************)
Fin(s, m, e) == [kind |-> "fin", s |-> s, m |-> m, e |-> e]

Inf(s) == [kind |-> "inf", s |-> s, m |-> 0, e |-> 0]

NaN(s, payload) == [kind |-> "nan", s |-> s, m |-> payload, e |-> 0]

EncodeFloat(v, mantBits, expBits) ==
    LET sign == IF v.s = 1 THEN {mantBits + expBits} ELSE {}
        ones == {mantBits + i : i \in 0..(expBits - 1)}
        h    == BitLen(v.m) - 1
        E    == v.e + h + Pow2(expBits - 1) - 1
    IN  CASE v.kind = "inf" -> sign \cup ones
          [] v.kind = "nan" -> sign \cup ones \cup {mantBits - 1} \cup NatBits(v.m)
          [] v.m = 0        -> sign
          [] OTHER          -> sign \cup {mantBits + i : i \in NatBits(E)}
                                    \cup {mantBits - h + j : j \in NatBits(v.m) \ {h}}

EncF32(v) == EncodeFloat(v, F32MantBits, F32ExpBits)

EncF64(v) == EncodeFloat(v, F64MantBits, F64ExpBits)

\* num_traits Zero::zero(): +0.0, no bit set.
FloatZero == {}

\* std::ops::Neg on a float of w bits: flips the sign bit.
FloatNeg(x, w) == (x \ {w - 1}) \cup ({w - 1} \ x)

\* num_traits Float::neg_zero(): -0.0.
FloatNegZero(w) == {w - 1}

\* f32::abs / f64::abs of the standard library: clears the sign bit.
FloatAbs(x, w) == x \ {w - 1}

(***************************************************************************)
(* The backends.                                                           *)
(***************************************************************************)
AVXBackends == {"AVXVector32", "AVXVector64"}

ScalarBackends == {"ScalarVector32", "ScalarVector64"}

ScalarBits(b) == IF b \in {"AVXVector32", "ScalarVector32"} THEN F32Bits ELSE F64Bits

\* Fault variant: the lane count taken with the size of f64 on both backends.
AVXLaneWidth_F64(b) == M256Bits \div F64Bits

\* size_of::<Self::Float>() / size_of::<Self::FloatScalar>()
AVXLaneWidth(b) == M256Bits \div ScalarBits(b)

LaneWidth(b) == IF b \in AVXBackends THEN AVXLaneWidth(b) ELSE 1

\* Fault variant: a backend that names itself as its Lower.
AVXVector32_LowerSelf == "AVXVector32"

AVXVector32_Lower == "ScalarVector32"

AVXVector64_Lower == "ScalarVector64"

Lower(b) ==
    CASE b = "AVXVector32" -> AVXVector32_Lower
      [] b = "AVXVector64" -> AVXVector64_Lower
      [] OTHER             -> b

(***************************************************************************)
(* Intrinsics, lane by lane.                                               *)
(***************************************************************************)
PsLanes == M256Bits \div F32Bits

PdLanes == M256Bits \div F64Bits

mm256_and(x, y) == [i \in DOMAIN x |-> x[i] \cap y[i]]

\* (NOT x) AND y
mm256_andnot(x, y) == [i \in DOMAIN x |-> y[i] \ x[i]]

mm256_or(x, y) == [i \in DOMAIN x |-> x[i] \cup y[i]]

mm256_xor(x, y) == [i \in DOMAIN x |-> (x[i] \ y[i]) \cup (y[i] \ x[i])]

mm256_set1_ps(x) == [i \in 1..PsLanes |-> x]

mm256_set1_pd(x) == [i \in 1..PdLanes |-> x]

mm256_set1_epi32(x) == [i \in 1..PsLanes |-> x]

mm256_set1_epi64x(x) == [i \in 1..PdLanes |-> x]

\* A cast reinterprets the 256 bits and changes none.
mm256_castsi256(x) == x

\* Unaligned load of a full register from the start of the span a[pos+1..]:
\* the span's length is not looked at; a lane beyond the buffer reads g.
mm256_loadu_ps(buf, at, g) ==
    [i \in 1..PsLanes |-> IF at + i \in DOMAIN buf THEN buf[at + i] ELSE g]

mm256_loadu_pd(buf, at, g) ==
    [i \in 1..PdLanes |-> IF at + i \in DOMAIN buf THEN buf[at + i] ELSE g]

\* Unaligned store of every lane of val to the start of the span.
mm256_storeu(buf, at, val) ==
    [j \in DOMAIN buf |-> IF (j - at) \in DOMAIN val THEN val[j - at] ELSE buf[j]]

\* cvtps2dq on one lane: round to nearest, ties to even (the default MXCSR
\* mode); NaN, infinities and values outside i32 give 0x80000000.
Cvtps2dqLane(x) ==
    LET E     == BitsToNat({i \in 0..(F32ExpBits - 1) : (F32MantBits + i) \in x})
        sig   == (x \cap AllOnes(F32MantBits)) \cup {F32MantBits}
        bias  == Pow2(F32ExpBits - 1) - 1
        sh    == E - bias - F32MantBits
        k     == -sh
        q     == {b - k : b \in {c \in sig : c >= k}}
        rem   == {b \in sig : b < k}
        up    == (k - 1) \in rem /\ (rem # {k - 1} \/ 0 \in q)
        mag   == IF sh >= 0 THEN {b + sh : b \in sig}
                 ELSE IF up THEN Inc(q) ELSE q
        indef == {F32Bits - 1}
    IN  IF E = Pow2(F32ExpBits) - 1 THEN indef
        ELSE IF E = 0 THEN {}
        ELSE IF E - bias >= F32Bits - 1 THEN indef
        ELSE IF (F32Bits - 1) \in x THEN TwosNeg(mag, F32Bits) ELSE mag

\* cvttps2dq: as cvtps2dq but truncating (used by a fault variant of to_int).
mm256_cvttps_epi32(v) ==
    [i \in DOMAIN v |->
        LET x == v[i]
            E == BitsToNat({j \in 0..(F32ExpBits - 1) : (F32MantBits + j) \in x})
            sig == (x \cap AllOnes(F32MantBits)) \cup {F32MantBits}
            sh == E - (Pow2(F32ExpBits - 1) - 1) - F32MantBits
            mag == IF sh >= 0 THEN {b + sh : b \in sig}
                   ELSE {b + sh : b \in {c \in sig : c >= -sh}}
        IN  IF E = Pow2(F32ExpBits) - 1 THEN {F32Bits - 1}
            ELSE IF E = 0 THEN {}
            ELSE IF E - (Pow2(F32ExpBits - 1) - 1) >= F32Bits - 1 THEN {F32Bits - 1}
            ELSE IF (F32Bits - 1) \in x THEN TwosNeg(mag, F32Bits) ELSE mag]

mm256_cvtps_epi32(v) == [i \in DOMAIN v |-> Cvtps2dqLane(v[i])]

\* Rust's `v as i64` on an f64: truncates toward zero, saturates, NaN is 0.
F64AsI64(x) ==
    LET E    == BitsToNat({i \in 0..(F64ExpBits - 1) : (F64MantBits + i) \in x})
        mant == x \cap AllOnes(F64MantBits)
        sig  == mant \cup {F64MantBits}
        bias == Pow2(F64ExpBits - 1) - 1
        sh   == E - bias - F64MantBits
        neg  == (F64Bits - 1) \in x
        mag  == IF sh >= 0 THEN {b + sh : b \in sig}
                ELSE {b + sh : b \in {c \in sig : c >= -sh}}
        sat  == IF neg THEN {F64Bits - 1} ELSE AllOnes(F64Bits - 1)
    IN  IF E = Pow2(F64ExpBits) - 1 THEN (IF mant # {} THEN {} ELSE sat)
        ELSE IF E = 0 THEN {}
        ELSE IF E - bias >= F64Bits - 1 THEN sat
        ELSE IF neg THEN TwosNeg(mag, F64Bits) ELSE mag

(***************************************************************************)
(* impl SimdVector for AVXVector32                                         *)
(***************************************************************************)
AVXVector32_abs(v) ==
    LET mask == mm256_set1_epi32(HexBits(<<7, 15, 15, 15, 15, 15, 15, 15>>))
    IN  mm256_and(v, mm256_castsi256(mask))

\* Fault variant: the operands of andnot exchanged.
AVXVector32_bitwise_select_Swapped(m, b, c) ==
    mm256_or(mm256_and(m, b), mm256_andnot(c, m))

AVXVector32_bitwise_select(m, b, c) ==
    LET u == mm256_and(m, b)
        v == mm256_andnot(m, c)
    IN  mm256_or(u, v)

AVXVector32_splat(x) == mm256_set1_ps(x)

\* Fault variant: sign_src and dest exchanged.
AVXVector32_copy_sign_Swapped(sign_src, dest) ==
    AVXVector32_bitwise_select(AVXVector32_splat(FloatNeg(FloatZero, F32Bits)), dest, sign_src)

AVXVector32_copy_sign(sign_src, dest) ==
    LET sign_bit_mask == AVXVector32_splat(FloatNeg(FloatZero, F32Bits))
    IN  AVXVector32_bitwise_select(sign_bit_mask, sign_src, dest)

\* Fault variant: the sign bit set rather than flipped.
AVXVector32_neg_Or(v) == mm256_or(v, mm256_set1_ps(FloatNegZero(F32Bits)))

AVXVector32_neg(v) ==
    LET neg_zero == mm256_set1_ps(FloatNegZero(F32Bits))
    IN  mm256_xor(v, neg_zero)

\* Fault variant: the truncating conversion.
AVXVector32_to_int_Truncating(v) == mm256_cvttps_epi32(v)

AVXVector32_to_int(v) == mm256_cvtps_epi32(v)

(***************************************************************************)
(* impl SimdVector for AVXVector64                                         *)
(***************************************************************************)
\* Fault variant: the 32-bit mask constant in 64-bit lanes.
AVXVector64_abs_Mask32(v) ==
    mm256_and(v, mm256_castsi256(mm256_set1_epi64x(HexBits(<<7, 15, 15, 15, 15, 15, 15, 15>>))))

AVXVector64_abs(v) ==
    LET mask == mm256_set1_epi64x(HexBits(<<7, 15, 15, 15, 15, 15, 15, 15,
                                            15, 15, 15, 15, 15, 15, 15, 15>>))
    IN  mm256_and(v, mm256_castsi256(mask))

AVXVector64_bitwise_select(m, b, c) ==
    LET u == mm256_and(m, b)
        v == mm256_andnot(m, c)
    IN  mm256_or(u, v)

AVXVector64_splat(x) == mm256_set1_pd(x)

AVXVector64_copy_sign(sign_src, dest) ==
    LET sign_bit_mask == AVXVector64_splat(FloatNeg(FloatZero, F64Bits))
    IN  AVXVector64_bitwise_select(sign_bit_mask, sign_src, dest)

AVXVector64_neg(v) ==
    LET neg_zero == mm256_set1_pd(FloatNegZero(F64Bits))
    IN  mm256_xor(v, neg_zero)

\* _mm256_store_pd to an aligned array, `as i64` on each element, reload.
\* The reload (_mm256_load_si256, an aligned load) is taken to succeed: the
\* alignment of the mapped array is decided by the `aligned` crate.
AVXVector64_to_int(v) ==
    LET data_f64 == [i \in 1..PdLanes |-> v[i]]
        data     == [i \in 1..PdLanes |-> F64AsI64(data_f64[i])]
    IN  data

(***************************************************************************)
(* The closures handed to apply_elementwise: f on a register of the given  *)
(* backend, and its scalar form on one element.                            *)
(***************************************************************************)
Fns == {"abs", "neg"}

LaneFn(b, f, v) ==
    CASE b = "AVXVector32" /\ f = "abs" -> AVXVector32_abs(v)
      [] b = "AVXVector32" /\ f = "neg" -> AVXVector32_neg(v)
      [] b = "AVXVector64" /\ f = "abs" -> AVXVector64_abs(v)
      [] b = "AVXVector64" /\ f = "neg" -> AVXVector64_neg(v)

ScalarFn(f, x, w) == IF f = "abs" THEN FloatAbs(x, w) ELSE FloatNeg(x, w)

(***************************************************************************)
(* with_load_store: load a register from the start of the span, apply f,   *)
(* store it back.                                                          *)
(***************************************************************************)
\* Fault variant: the loaded register stored back without applying f.
AVXVector32_with_load_store_NoApply(f, buf, at, g) ==
    mm256_storeu(buf, at, mm256_loadu_ps(buf, at, g))

AVXVector32_with_load_store(f, buf, at, g) ==
    LET val == mm256_loadu_ps(buf, at, g)
    IN  mm256_storeu(buf, at, LaneFn("AVXVector32", f, val))

AVXVector64_with_load_store(f, buf, at, g) ==
    LET val == mm256_loadu_pd(buf, at, g)
    IN  mm256_storeu(buf, at, LaneFn("AVXVector64", f, val))

\* The scalar backend: one element, transformed directly.
Scalar_with_load_store(b, f, buf, at) ==
    [buf EXCEPT ![at + 1] = ScalarFn(f, buf[at + 1], ScalarBits(b))]

with_load_store(b, f, buf, at, g) ==
    CASE b = "AVXVector32" -> AVXVector32_with_load_store(f, buf, at, g)
      [] b = "AVXVector64" -> AVXVector64_with_load_store(f, buf, at, g)
      [] OTHER             -> Scalar_with_load_store(b, f, buf, at)

\* How many scalars one with_load_store of backend b reads and writes.
LanesTouched(b, buf, at) ==
    CASE b = "AVXVector32" -> Len(mm256_loadu_ps(buf, at, {}))
      [] b = "AVXVector64" -> Len(mm256_loadu_pd(buf, at, {}))
      [] OTHER             -> 1

(***************************************************************************)
(* Inputs.  Pool holds the scalars the buffers and registers are drawn     *)
(* from: 1.0 .. 10.0, then -1.5, 2.5, -0.0, -5.0, -7.5, 3.5, -2.5, +inf,   *)
(* NaN, 2^31, +0.0, -inf, 0.5, -2^31, 2.75, a negative NaN with payload,   *)
(* 2^63, -0.75, 2^31 - 128 and 1.5.                                        *)
(***************************************************************************)
Pool ==
    << Fin(0, 1, 0), Fin(0, 1, 1), Fin(0, 3, 0), Fin(0, 1, 2), Fin(0, 5, 0),
       Fin(0, 3, 1), Fin(0, 7, 0), Fin(0, 1, 3), Fin(0, 9, 0), Fin(0, 5, 1),
       Fin(1, 3, -1), Fin(0, 5, -1), Fin(1, 0, 0), Fin(1, 5, 0), Fin(1, 15, -1),
       Fin(0, 7, -1), Fin(1, 5, -1), Inf(0), NaN(0, 0), Fin(0, 1, 31),
       Fin(0, 0, 0), Inf(1), Fin(0, 1, -1), Fin(1, 1, 31), Fin(0, 11, -2),
       NaN(1, 5), Fin(0, 1, 63), Fin(1, 3, -2), Fin(0, 16777215, 7), Fin(0, 3, -1) >>

\* n consecutive scalars of the pool from offset k on, wrapping round.
Window(n, k) == [i \in 1..n |-> Pool[((k + i - 1) % Len(Pool)) + 1]]

Enc(b, v) == IF ScalarBits(b) = F32Bits THEN EncF32(v) ELSE EncF64(v)

EncSeq(b, vals) == [i \in DOMAIN vals |-> Enc(b, vals[i])]

\* The register of backend b holding the first LaneWidth(b) of the values.
Reg(b, vals) == [i \in 1..LaneWidth(b) |-> Enc(b, vals[i])]

\* Masks: all ones, all zeros, two lane-uniform mixtures, and two that are
\* not lane-uniform (the sign bit alone, the low half of each lane).
Masks(b) ==
    LET w == ScalarBits(b)
        n == LaneWidth(b)
    IN  { [i \in 1..n |-> AllOnes(w)],
          [i \in 1..n |-> {}],
          [i \in 1..n |-> IF i % 2 = 1 THEN AllOnes(w) ELSE {}],
          [i \in 1..n |-> IF i % 2 = 0 THEN AllOnes(w) ELSE {}],
          [i \in 1..n |-> {w - 1}],
          [i \in 1..n |-> AllOnes(w \div 2)] }

\* What a load beyond the end of the buffer may read.
Garbage(b) == {{}, AllOnes(ScalarBits(b))}

(***************************************************************************)
(* The elementwise driver.  frames is the stack of the descent: the        *)
(* backend running and the length of the span it was given.  The span of   *)
(* the running frame is a[pos+1 .. Len(a)].                                *)
(***************************************************************************)
Level == frames[Len(frames)].level

Remaining == Len(a) - pos

DriverIdle ==
    /\ backend = "none" /\ fn = "none" /\ orig = <<>> /\ a = <<>>
    /\ pos = 0 /\ frames = <<>> /\ pc = "idle" /\ calls = {}

OpsIdle ==
    /\ opBackend = "none" /\ inA = <<>> /\ inB = <<>> /\ inM = <<>>
    /\ opName = "idle" /\ result = <<>> /\ int32s = <<>> /\ int64s = <<>>

\* AVXVector32::apply_elementwise / AVXVector64::apply_elementwise entered
\* with a buffer of n scalars.
DriverInit ==
    /\ backend \in AVXBackends
    /\ fn \in Fns
    /\ \E n \in 0..MaxLen, k \in 0..(Len(Pool) - 1) : orig = EncSeq(backend, Window(n, k))
    /\ a = orig
    /\ pos = 0
    /\ frames = <<[level |-> backend, n |-> Len(orig)]>>
    /\ pc = "run"
    /\ calls = {}

\* One full lane: with_load_store on the start of the span, then the span
\* shrinks by the lane width.
FullLaneStep ==
    /\ pc = "run"
    /\ Remaining >= LaneWidth(Level)
    /\ \E g \in Garbage(Level) : a' = with_load_store(Level, fn, a, pos, g)
    /\ calls' = calls \cup {[level |-> Level, at |-> pos, span |-> Remaining,
                             lanes |-> LanesTouched(Level, a, pos)]}
    /\ pos' = pos + LaneWidth(Level)
    /\ UNCHANGED <<backend, fn, orig, frames, pc>>
    /\ UNCHANGED opVars

\* Fewer than a lane is left, and something is: the remainder goes to the
\* driver of the Lower backend.
Recurse ==
    /\ pc = "run"
    /\ Remaining > 0
    /\ Remaining < LaneWidth(Level)
    /\ Len(frames) <= MaxDepth
    /\ frames' = Append(frames, [level |-> Lower(Level), n |-> Remaining])
    /\ UNCHANGED <<backend, fn, orig, a, pos, pc, calls>>
    /\ UNCHANGED opVars

\* Nothing is left: every frame returns.
Return ==
    /\ pc = "run"
    /\ Remaining = 0
    /\ pc' = "done"
    /\ UNCHANGED <<backend, fn, orig, a, pos, frames, calls>>
    /\ UNCHANGED opVars

Init == DriverInit /\ OpsIdle

Next == FullLaneStep \/ Recurse \/ Return

Spec == Init /\ [][Next]_vars

(***************************************************************************)
(* The lane operations applied to registers drawn from the pool.  inA and  *)
(* inB hold eight values; a backend's register takes the first LaneWidth   *)
(* of them in its own encoding.                                            *)
(***************************************************************************)
RegA == Reg(opBackend, inA)

RegB == Reg(opBackend, inB)

abs(b, v) == IF b = "AVXVector32" THEN AVXVector32_abs(v) ELSE AVXVector64_abs(v)

neg(b, v) == IF b = "AVXVector32" THEN AVXVector32_neg(v) ELSE AVXVector64_neg(v)

copy_sign(b, sign_src, dest) ==
    IF b = "AVXVector32" THEN AVXVector32_copy_sign(sign_src, dest)
    ELSE AVXVector64_copy_sign(sign_src, dest)

bitwise_select(b, m, x, y) ==
    IF b = "AVXVector32" THEN AVXVector32_bitwise_select(m, x, y)
    ELSE AVXVector64_bitwise_select(m, x, y)

\* How far the window of inB is shifted from that of inA.
Shifts == {0, 1, 7, 11, 13, 19}

OpsInit ==
    /\ opBackend \in AVXBackends
    /\ \E k \in 0..(Len(Pool) - 1), d \in Shifts :
           /\ inA = Window(PsLanes, k)
           /\ inB = Window(PsLanes, k + d)
    /\ inM \in Masks(opBackend)
    /\ opName = "ready"
    /\ result = <<>>
    /\ int32s = <<>>
    /\ int64s = <<>>

Do_abs ==
    /\ opName = "ready"
    /\ result' = abs(opBackend, RegA)
    /\ opName' = "abs"
    /\ UNCHANGED <<opBackend, inA, inB, inM, int32s, int64s>>
    /\ UNCHANGED driverVars

Do_neg ==
    /\ opName = "ready"
    /\ result' = neg(opBackend, RegA)
    /\ opName' = "neg"
    /\ UNCHANGED <<opBackend, inA, inB, inM, int32s, int64s>>
    /\ UNCHANGED driverVars

\* neg applied to the result of neg.
Do_neg_again ==
    /\ opName = "neg"
    /\ result' = neg(opBackend, result)
    /\ opName' = "negneg"
    /\ UNCHANGED <<opBackend, inA, inB, inM, int32s, int64s>>
    /\ UNCHANGED driverVars

\* copy_sign(sign_src = inA, dest = inB)
Do_copy_sign ==
    /\ opName = "ready"
    /\ result' = copy_sign(opBackend, RegA, RegB)
    /\ opName' = "copy_sign"
    /\ UNCHANGED <<opBackend, inA, inB, inM, int32s, int64s>>
    /\ UNCHANGED driverVars

\* bitwise_select(mask = inM, inA, inB)
Do_bitwise_select ==
    /\ opName = "ready"
    /\ result' = bitwise_select(opBackend, inM, RegA, RegB)
    /\ opName' = "bitwise_select"
    /\ UNCHANGED <<opBackend, inA, inB, inM, int32s, int64s>>
    /\ UNCHANGED driverVars

\* to_int of the eight values on both widths: one register of AVXVector32,
\* two registers of AVXVector64.
Do_to_int ==
    /\ opName = "ready"
    /\ int32s' = AVXVector32_to_int(Reg("AVXVector32", inA))
    /\ int64s' = AVXVector64_to_int(Reg("AVXVector64", SubSeq(inA, 1, PdLanes)))
                 \o AVXVector64_to_int(Reg("AVXVector64", SubSeq(inA, PdLanes + 1, 2 * PdLanes)))
    /\ opName' = "to_int"
    /\ UNCHANGED <<opBackend, inA, inB, inM, result>>
    /\ UNCHANGED driverVars

InitOps == DriverIdle /\ OpsInit

NextOps ==
    \/ Do_abs
    \/ Do_neg
    \/ Do_neg_again
    \/ Do_copy_sign
    \/ Do_bitwise_select
    \/ Do_to_int

SpecOps == InitOps /\ [][NextOps]_vars

(***************************************************************************)
(* Properties of the driver (checked under Spec).                          *)
(***************************************************************************)
\* The scalar form of fn applied to one original element.
Expected(i) == ScalarFn(fn, orig[i], ScalarBits(backend))

\* The with_load_store calls made by the backend of frame k.
StepsAt(k) == Cardinality({c \in calls : c.level = frames[k].level})

\* C1: at every point of apply_elementwise the elements before the current
\* span equal the scalar function of the original elements bit for bit, the
\* others are untouched, and on return the whole buffer is transformed, for
\* every length 0..MaxLen.
C1_ElementwiseBitExact ==
    /\ Len(a) = Len(orig)
    /\ \A i \in DOMAIN a : a[i] = IF i <= pos THEN Expected(i) ELSE orig[i]
    /\ pc = "done" => pos = Len(a)

\* negate over [1.0 .. 10.0] on the 32-bit backend gives [-1.0 .. -10.0]:
\* one full lane of 8 and a remainder of 2.
C1_Witness ==
    /\ pc = "done"
    /\ backend = "AVXVector32"
    /\ fn = "neg"
    /\ orig = EncSeq("AVXVector32", Window(10, 0))
    /\ a = [i \in 1..10 |-> EncF32(Fin(1, Pool[i].m, Pool[i].e))]
    /\ Len(frames) = 2

\* C2: every with_load_store is given a span of at least as many elements as
\* it reads and writes (8 on the 32-bit backend, 4 on the 64-bit one), so
\* every index it touches lies inside the buffer.
C2_LoadStoreInBounds ==
    \A c \in calls :
        /\ c.span >= c.lanes
        /\ \A i \in 1..c.lanes : (c.at + i) \in DOMAIN a
        /\ c.level = "AVXVector32" => c.lanes = 8
        /\ c.level = "AVXVector64" => c.lanes = 4

\* A 64-bit run whose last full lane is exactly the 4 elements that are left.
C2_Witness ==
    /\ pc = "done"
    /\ Len(a) = 8
    /\ \E c \in calls : c.level = "AVXVector64" /\ c.span = 4 /\ c.at + 4 = Len(a)

\* C3 (as claimed): the tier entered from a 256-bit backend is a narrower
\* hardware backend of lane width greater than 1.
C3_LowerIsNarrowHardware ==
    Len(frames) >= 2 =>
        /\ LaneWidth(frames[2].level) > 1
        /\ LaneWidth(frames[2].level) < LaneWidth(frames[1].level)

\* C3 (amended): the tier entered from a 256-bit backend is the scalar
\* backend of the same scalar width, of lane width 1, and it is the last.
C3_LowerIsScalar ==
    /\ Len(frames) <= 2
    /\ Len(frames) = 2 =>
        /\ frames[1].level = "AVXVector32" => frames[2].level = "ScalarVector32"
        /\ frames[1].level = "AVXVector64" => frames[2].level = "ScalarVector64"
        /\ LaneWidth(frames[2].level) = 1

C3_Witness ==
    /\ Len(frames) = 2
    /\ frames[1].level = "AVXVector32"
    /\ frames[2].level = "ScalarVector32"
    /\ frames[2].n = 7

\* Strictly decreases with every step of the driver and is never negative.
Variant == Remaining + LaneWidth(Level) + (IF pc = "run" THEN 1 ELSE 0)

C4_Shape ==
    /\ Variant >= 0
    /\ \A k \in 1..Len(frames) :
        /\ StepsAt(k) <= frames[k].n \div LaneWidth(frames[k].level)
        /\ (k < Len(frames) \/ pc = "done") =>
               StepsAt(k) = frames[k].n \div LaneWidth(frames[k].level)
        /\ k > 1 =>
            /\ LaneWidth(frames[k].level) < LaneWidth(frames[k - 1].level)
            /\ frames[k].n = frames[k - 1].n % LaneWidth(frames[k - 1].level)
    /\ pc = "done" =>
        /\ frames[Len(frames)].n % LaneWidth(Level) = 0
        /\ Len(frames) > 1 => LaneWidth(Level) = 1

\* C4: the descent terminates: every step strictly decreases a natural
\* number; the lane width strictly decreases from a frame to the next, the
\* last frame leaves no remainder (width 1 when there was a descent), and a
\* frame given n elements makes floor(n / W) full-lane steps.
C4_Terminates == [][Variant' < Variant /\ C4_Shape']_vars

\* A run of 17 elements on the 32-bit backend: two full lanes, then one
\* scalar step on the remainder.
C4_Witness ==
    /\ pc = "done"
    /\ Len(frames) = 2
    /\ frames[1] = [level |-> "AVXVector32", n |-> 17]
    /\ StepsAt(1) = 2
    /\ StepsAt(2) = 1

\* C9: on a buffer shorter than the lane width (8 / 4) no with_load_store
\* of the 256-bit backend is made: every element is handled by the Lower
\* backend's path, and abs over [-1.5, 2.5, -0.0] gives [1.5, 2.5, 0.0].
C9_ShortBufferSkipsWide ==
    Len(orig) < (IF backend = "AVXVector32" THEN 8 ELSE 4) =>
        /\ \A c \in calls : c.level \notin AVXBackends /\ c.level = Lower(backend)
        /\ pc = "done" =>
            /\ \A i \in DOMAIN a : \E c \in calls : c.at + 1 = i /\ c.lanes = 1
            /\ \A i \in DOMAIN a : a[i] = Expected(i)
            /\ Len(orig) > 0 => Len(frames) = 2

C9_Witness ==
    /\ pc = "done"
    /\ backend = "AVXVector64"
    /\ fn = "abs"
    /\ orig = <<EncF64(Fin(1, 3, -1)), EncF64(Fin(0, 5, -1)), EncF64(Fin(1, 0, 0))>>
    /\ a = <<EncF64(Fin(0, 3, -1)), EncF64(Fin(0, 5, -1)), EncF64(Fin(0, 0, 0))>>
    /\ Cardinality(calls) = 3

(***************************************************************************)
(* Properties of the lane operations (checked under SpecOps).              *)
(***************************************************************************)
OpBits == ScalarBits(opBackend)

OpSign == OpBits - 1

\* C5: each lane of copy_sign(sign_src, dest) has the sign bit of sign_src
\* and every other bit of dest, on both backends and for zeros, infinities
\* and NaNs too; copy_sign(-5.0, 3.0) = -3.0 and copy_sign(2.0, -7.5) = 7.5.
C5_CopySign ==
    opName = "copy_sign" =>
      LET ra == RegA
          rb == RegB
      IN
        /\ DOMAIN result = DOMAIN ra
        /\ \A i \in DOMAIN result :
            /\ (OpSign \in result[i]) <=> (OpSign \in ra[i])
            /\ \A k \in 0..(OpSign - 1) : (k \in result[i]) <=> (k \in rb[i])
            /\ result[i] \subseteq AllOnes(OpBits)
            /\ (inA[i] = Fin(1, 5, 0) /\ inB[i] = Fin(0, 3, 0)) =>
                   result[i] = Enc(opBackend, Fin(1, 3, 0))
            /\ (inA[i] = Fin(0, 1, 1) /\ inB[i] = Fin(1, 15, -1)) =>
                   result[i] = Enc(opBackend, Fin(0, 15, -1))

C5_Witness ==
    /\ opName = "copy_sign"
    /\ opBackend = "AVXVector64"
    /\ inA[1] = Fin(1, 5, 0)
    /\ inB[1] = Fin(0, 3, 0)
    /\ result[1] = EncF64(Fin(1, 3, 0))
    /\ inB[2].kind = "fin"

\* C6: each lane of abs(x) is the lane of x with the sign bit (31 / 63)
\* cleared and every other bit unchanged; abs(-0.0) is +0.0.
C6_AbsClearsSign ==
    opName = "abs" =>
      LET ra == RegA
      IN
        /\ DOMAIN result = DOMAIN ra
        /\ \A i \in DOMAIN result :
            /\ OpSign \notin result[i]
            /\ \A k \in 0..(OpSign - 1) : (k \in result[i]) <=> (k \in ra[i])
            /\ result[i] \subseteq AllOnes(OpBits)
            /\ inA[i] = Fin(1, 0, 0) => result[i] = Enc(opBackend, Fin(0, 0, 0))

C6_Witness ==
    /\ opName = "abs"
    /\ opBackend = "AVXVector64"
    /\ inA[1] = Fin(1, 0, 0)
    /\ RegA[1] = {63}
    /\ result[1] = {}
    /\ inA[2] = Fin(1, 5, 0)
    /\ result[2] = EncF64(Fin(0, 5, 0))

\* C7: neg flips the sign bit of every lane and no other bit, and neg of
\* neg gives back the register bit for bit, on both backends.
C7_NegFlipsSign ==
    /\ opName = "neg" =>
      LET ra == RegA
      IN
        /\ DOMAIN result = DOMAIN ra
        /\ \A i \in DOMAIN result :
            /\ (OpSign \in result[i]) <=> (OpSign \notin ra[i])
            /\ \A k \in 0..(OpSign - 1) : (k \in result[i]) <=> (k \in ra[i])
            /\ result[i] \subseteq AllOnes(OpBits)
    /\ opName = "negneg" => result = RegA

C7_Witness ==
    /\ opName = "negneg"
    /\ opBackend = "AVXVector32"
    /\ inA[1].kind = "nan"
    /\ inA[3] = Fin(0, 0, 0)
    /\ result = RegA

LaneUniform(m, w) == \A i \in DOMAIN m : m[i] = {} \/ m[i] = AllOnes(w)

\* C8: bitwise_select(mask, a, b) is (mask & a) | (~mask & b) bit by bit:
\* an all-ones mask gives a, an all-zeros mask gives b, and a lane-uniform
\* mask gives in each lane the whole lane of a or the whole lane of b.
C8_BitwiseSelect ==
    opName = "bitwise_select" =>
      LET ra == RegA
          rb == RegB
      IN
        /\ DOMAIN result = DOMAIN ra
        /\ \A i \in DOMAIN result : \A k \in 0..OpSign :
               (k \in result[i]) <=> (IF k \in inM[i] THEN k \in ra[i] ELSE k \in rb[i])
        /\ \A i \in DOMAIN result : result[i] \subseteq AllOnes(OpBits)
        /\ (\A i \in DOMAIN inM : inM[i] = AllOnes(OpBits)) => result = ra
        /\ (\A i \in DOMAIN inM : inM[i] = {}) => result = rb
        /\ LaneUniform(inM, OpBits) =>
               \A i \in DOMAIN result :
                   result[i] = (IF inM[i] = {} THEN rb[i] ELSE ra[i])

\* A mask that takes the odd lanes from a and the even lanes from b.
C8_Witness ==
    /\ opName = "bitwise_select"
    /\ opBackend = "AVXVector32"
    /\ inM[1] = AllOnes(32)
    /\ inM[2] = {}
    /\ RegA[1] # RegB[1]
    /\ RegA[2] # RegB[2]
    /\ result[1] = RegA[1]
    /\ result[2] = RegB[2]

(***************************************************************************)
(* to_int against integer arithmetic on the values themselves.             *)
(***************************************************************************)
\* |v| < 2^31
InI32(v) == v.kind = "fin" /\ (v.m = 0 \/ v.e + BitLen(v.m) <= 31)

IsMinI32(v) == v.kind = "fin" /\ v.s = 1 /\ v.m = 1 /\ v.e = 31

Signed(v, n) == IF v.s = 1 THEN -n ELSE n

\* v rounded toward zero.
Truncate(v) ==
    Signed(v, IF v.e >= 0 THEN v.m * Pow2(v.e) ELSE v.m \div Pow2(-v.e))

\* Whether rounding v to the nearest integer, ties to even, moves away
\* from zero.
RoundsUp(v) ==
    /\ v.e < 0
    /\ LET d == Pow2(-v.e)
           q == v.m \div d
           r == v.m % d
       IN  2 * r > d \/ (2 * r = d /\ q % 2 = 1)

\* v rounded to the nearest integer, ties to even.
RoundHalfEven(v) ==
    Signed(v, IF v.e >= 0 THEN v.m * Pow2(v.e)
              ELSE (v.m \div Pow2(-v.e)) + (IF RoundsUp(v) THEN 1 ELSE 0))

SameInteger(i) == SignExtend(int32s[i], 32, 64) = int64s[i]

\* C10 (as claimed): for every finite value the two widths give the same
\* integer exactly when round-half-even(v) equals truncate(v).
C10_SameExactlyWhenRoundIsTruncate ==
    opName = "to_int" =>
        \A i \in DOMAIN inA :
            inA[i].kind = "fin" => (SameInteger(i) <=> ~RoundsUp(inA[i]))

\* C10 (amended): for every finite v with -2^31 <= v < 2^31 the 32-bit
\* backend gives round-half-even(v), the 64-bit backend gives truncate(v),
\* and the two agree exactly when those are equal; for any other v the
\* 32-bit backend gives 0x80000000 whatever the 64-bit backend gives.
C10_ToIntPerWidth ==
    opName = "to_int" =>
        /\ DOMAIN int32s = DOMAIN inA
        /\ DOMAIN int64s = DOMAIN inA
        /\ \A i \in DOMAIN inA :
            LET v == inA[i]
            IN  /\ InI32(v) =>
                    /\ int32s[i] = IntBits(RoundHalfEven(v), 32)
                    /\ int64s[i] = IntBits(Truncate(v), 64)
                    /\ SameInteger(i) <=> (RoundHalfEven(v) = Truncate(v))
                /\ IsMinI32(v) =>
                    /\ int32s[i] = {31}
                    /\ int64s[i] = 31..63
                    /\ SameInteger(i)
                /\ ~InI32(v) => int32s[i] = {31}

\* 2.5 -> 2 and 2, 3.5 -> 4 and 3, -2.5 -> -2 and -2.
C10_Witness ==
    /\ opName = "to_int"
    /\ inA[1] = Fin(0, 5, -1)
    /\ int32s[1] = IntBits(2, 32)
    /\ int64s[1] = IntBits(2, 64)
    /\ inA[5] = Fin(0, 7, -1)
    /\ int32s[5] = IntBits(4, 32)
    /\ int64s[5] = IntBits(3, 64)
    /\ inA[6] = Fin(1, 5, -1)
    /\ int32s[6] = IntBits(-2, 32)
    /\ int64s[6] = IntBits(-2, 64)

====
